---- MODULE Spec2Model ----
(***************************************************************************)
(* Hospital patient appointment scheduler (src/app.py).                    *)
(*                                                                         *)
(* A patient is the Python tuple (name, start, end), written here as the   *)
(* TLA+ tuple <<name, start, end>>: p[1] is the name, p[2] the start and   *)
(* p[3] the end (the source's x[2]).  A Python str is a sequence of        *)
(* one-character strings, so that strip(), int() and + on str are          *)
(* computed rather than assumed.                                           *)
(*                                                                         *)
(* Two specifications:                                                     *)
(*   Spec    the Flask handlers over the process-wide list `patients`;     *)
(*   SpecFn  greedy_schedule as a pure function, called on every bounded   *)
(*           list of valid intervals and then again on its own output.     *)
(***************************************************************************)
EXTENDS Integers, Sequences, FiniteSets, TLC

VARIABLES
    patients,       \* the module-level list `patients`
    req,            \* JSON body of the request being answered (NoReq if none)
    resp,           \* the response the last handler returned
    lastOp,         \* the handler that ran last
    patients_list,  \* SpecFn: the argument of greedy_schedule
    scheduled,      \* SpecFn: the list greedy_schedule returned
    pc              \* SpecFn: "call" before the call, "return" after it

vars == <<patients, req, resp, lastOp, patients_list, scheduled, pc>>

(***************************************************************************)
(* Bounds                                                                  *)
(***************************************************************************)
MaxTime == 2        \* largest time value SpecFn draws
MaxLen == 3         \* longest argument list SpecFn draws
MaxPatients == 3    \* add_patient is explored while the list stays this short

(***************************************************************************)
(* Python helpers                                                          *)
(***************************************************************************)
Digits == <<"0", "1", "2", "3", "4", "5", "6", "7", "8", "9">>

IsDigit(c) == \E i \in 1..10 : Digits[i] = c

DigitVal(c) == (CHOOSE i \in 1..10 : Digits[i] = c) - 1

IsSpace(c) == c = " "

RECURSIVE lstrip(_)
lstrip(s) == IF s # <<>> /\ IsSpace(s[1]) THEN lstrip(Tail(s)) ELSE s

RECURSIVE rstrip(_)
rstrip(s) ==
    IF s # <<>> /\ IsSpace(s[Len(s)]) THEN rstrip(SubSeq(s, 1, Len(s) - 1)) ELSE s

\* str.strip()
strip(s) == rstrip(lstrip(s))

RECURSIVE DigitsValue(_, _)
DigitsValue(s, acc) ==
    IF s = <<>> THEN acc ELSE DigitsValue(Tail(s), 10 * acc + DigitVal(s[1]))

\* str(n) for the one-digit numbers auto_generate formats
str(n) == <<Digits[n + 1]>>

(***************************************************************************)
(* JSON values of a request body.  t is the JSON type; s the characters of *)
(* a string; n the number of an int, or twice the number of a float (so    *)
(* n = 3 under t = "float" is 1.5).                                        *)
(***************************************************************************)
JStr(s) == [t |-> "str", s |-> s, n |-> 0]
JInt(n) == [t |-> "int", s |-> <<>>, n |-> n]
JFloat(halves) == [t |-> "float", s |-> <<>>, n |-> halves]
JNull == [t |-> "null", s |-> <<>>, n |-> 0]

\* the digits of int(str), after strip() and an optional sign
IntBody(s) ==
    LET u == strip(s)
    IN  IF u # <<>> /\ (u[1] = "-" \/ u[1] = "+") THEN Tail(u) ELSE u

\* int(v) raises (TypeError for None, ValueError for a non-numeric str)
int_raises(v) ==
    \/ v.t = "null"
    \/ /\ v.t = "str"
       /\ \/ IntBody(v.s) = <<>>
          \/ \E i \in 1..Len(IntBody(v.s)) : ~IsDigit(IntBody(v.s)[i])

\* int(v) when it does not raise: an int is itself, a float is truncated
\* towards zero, a str is parsed as a signed decimal
int(v) ==
    CASE v.t = "int" -> v.n
      [] v.t = "float" -> IF v.n >= 0 THEN v.n \div 2 ELSE -((-v.n) \div 2)
      [] v.t = "str" ->
            LET u == strip(v.s)
                m == DigitsValue(IntBody(v.s), 0)
            IN  IF u[1] = "-" THEN -m ELSE m
      [] OTHER -> 0

(***************************************************************************)
(* greedy_schedule                                                         *)
(***************************************************************************)
\* the sort key, lambda x: x[2]
key(x) == x[3]

\* one step of a stable sort: p goes behind every element whose key is <= its own
insert_sorted_unstable(s, p) ==
    LET k == Cardinality({i \in 1..Len(s) : key(s[i]) < key(p)})
    IN  SubSeq(s, 1, k) \o <<p>> \o SubSeq(s, k + 1, Len(s))

insert_sorted(s, p) ==
    LET k == Cardinality({i \in 1..Len(s) : key(s[i]) <= key(p)})
    IN  SubSeq(s, 1, k) \o <<p>> \o SubSeq(s, k + 1, Len(s))

\* sorted(patients_list, key=lambda x: x[2]): a new list, stable
RECURSIVE sorted(_)
sorted(l) ==
    IF l = <<>> THEN <<>>
    ELSE insert_sorted(sorted(SubSeq(l, 1, Len(l) - 1)), l[Len(l)])

\* the caller's list after sorted() has run on it: sorted() copies
arg_after_sort_in_place(l) == sorted(l)

arg_after_sorted(l) == l

\* last_end = -1
last_end_init == -1

\* if start >= last_end
accepts_always(start, last_end) == TRUE

accepts(start, last_end) == start >= last_end

\* for patient in sorted_patients: ... (from position i on)
RECURSIVE for_loop(_, _, _, _)
for_loop(sorted_patients, i, sched, last_end) ==
    IF i > Len(sorted_patients) THEN sched
    ELSE LET patient == sorted_patients[i]
             start == patient[2]
             end == patient[3]
         IN  IF accepts(start, last_end)
             THEN for_loop(sorted_patients, i + 1, Append(sched, patient), end)
             ELSE for_loop(sorted_patients, i + 1, sched, last_end)

\* the loop of greedy_schedule over the whole sorted list
scan_skip_first(sorted_patients) == for_loop(sorted_patients, 2, <<>>, last_end_init)

scan(sorted_patients) == for_loop(sorted_patients, 1, <<>>, last_end_init)

greedy_schedule(l) == scan(sorted(l))

(***************************************************************************)
(* Flask handlers                                                          *)
(***************************************************************************)
\* a response: the HTTP status and the JSON body, which is an object with an
\* 'error' or a 'status' text (and a count), or an array of patient objects
Resp(code, kind, text, count, items) ==
    [code |-> code, kind |-> kind, text |-> text, count |-> count, items |-> items]

NoResp == Resp(0, "none", "", 0, <<>>)

NoReq == [name |-> JNull, start |-> JNull, end |-> JNull]

\* {'name': p[0], 'start': p[1], 'end': p[2]}
patient_json(p) == [name |-> p[1], start |-> p[2], end |-> p[3]]

\* [{...} for p in l]
patients_json(l) == [i \in 1..Len(l) |-> patient_json(l[i])]

\* request bodies the clients send
NameSamples ==
    {JStr(<<" ">>), JStr(<<" ", "A", " ">>), JNull}

TimeSamples ==
    {JInt(-2), JInt(1), JStr(<<" ", "0", " ">>), JStr(<<"1", "x">>), JFloat(3), JNull}

Requests == [name : NameSamples, start : TimeSamples, end : TimeSamples]

\* data.get('name', '').strip() raises AttributeError unless the name is a str
name_raises(data) == data.name.t # "str"

\* if not name or start >= end
invalid_values_strict(name, start, end) == name = <<>> \/ start > end

invalid_values(name, start, end) == name = <<>> \/ start >= end

\* POST /api/patients: the list and the response it leaves
add_patient_result(old, data) ==
    IF name_raises(data)
    THEN [patients |-> old,
          resp |-> Resp(500, "error", "Internal Server Error", 0, <<>>)]
    ELSE IF int_raises(data.start) \/ int_raises(data.end)
    THEN [patients |-> old,
          resp |-> Resp(400, "error", "Start and End must be integers", 0, <<>>)]
    ELSE LET name == strip(data.name.s)
             start == int(data.start)
             end == int(data.end)
         IN  IF invalid_values(name, start, end)
             THEN [patients |-> old,
                   resp |-> Resp(400, "error", "Invalid name or time values", 0, <<>>)]
             ELSE [patients |-> Append(old, <<name, start, end>>),
                   resp |-> Resp(201, "status", "ok", 0, <<>>)]

add_patient ==
    \E data \in Requests :
        LET r == add_patient_result(patients, data)
        IN  /\ Len(r.patients) <= MaxPatients
            /\ patients' = r.patients
            /\ req' = data
            /\ resp' = r.resp
            /\ lastOp' = "add"
            /\ UNCHANGED <<patients_list, scheduled, pc>>

\* GET /api/patients
get_patients ==
    /\ resp' = Resp(200, "list", "", 0, patients_json(patients))
    /\ req' = NoReq
    /\ lastOp' = "list"
    /\ UNCHANGED <<patients, patients_list, scheduled, pc>>

\* POST /api/clear
clear_patients ==
    /\ patients' = <<>>
    /\ resp' = Resp(200, "status", "cleared", 0, <<>>)
    /\ req' = NoReq
    /\ lastOp' = "clear"
    /\ UNCHANGED <<patients_list, scheduled, pc>>

names ==
    << <<"R", "a", "m">>, <<"S", "h", "y", "a", "m">>, <<"S", "i", "t", "a">>,
       <<"G", "i", "t", "a">>, <<"A", "m", "a", "n">>, <<"P", "o", "o", "j", "a">>,
       <<"V", "i", "k", "a", "s">>, <<"R", "a", "n", "i">> >>

\* what the random module hands out during one auto_generate: for each i the
\* index random.choice picks, and the two random.randint results
Draws == [choice : 1..8, start : 1..8, len : 1..4]

\* The streams explored: the eight draws advance from a first draw by a fixed
\* stride (0: the same draw every time), each within its own range.
Strides == {0, 1}

Stream(first, stride) ==
    [i \in 0..7 |->
        [choice |-> 1 + ((first.choice - 1 + i * stride) % 8),
         start |-> 1 + ((first.start - 1 + i * stride) % 8),
         len |-> 1 + ((first.len - 1 + i * stride) % 4)]]

Streams ==
    {Stream(f, k) : f \in {d \in Draws : d.choice = d.start}, k \in Strides}

\* the tuple appended in iteration i
auto_patient(i, draw) ==
    <<names[draw.choice] \o str(i + 1), draw.start, draw.start + draw.len>>

\* the list after patients.clear() and the eight appends
auto_patients_no_clear(old, stream) ==
    old \o [j \in 1..8 |-> auto_patient(j - 1, stream[j - 1])]

auto_patients(old, stream) ==
    [j \in 1..8 |-> auto_patient(j - 1, stream[j - 1])]

\* POST /api/auto
auto_generate ==
    \E stream \in Streams :
        /\ patients' = auto_patients(patients, stream)
        /\ resp' = Resp(200, "status", "generated", Len(patients'), <<>>)
        /\ req' = NoReq
        /\ lastOp' = "auto"
        /\ UNCHANGED <<patients_list, scheduled, pc>>

\* the response of GET /api/schedule
schedule_response_no_check(l) ==
    Resp(200, "list", "", 0, patients_json(greedy_schedule(l)))

schedule_response(l) ==
    IF l = <<>> THEN Resp(400, "error", "No patients", 0, <<>>)
    ELSE Resp(200, "list", "", 0, patients_json(greedy_schedule(l)))

\* GET /api/schedule
schedule ==
    /\ resp' = schedule_response(patients)
    /\ patients' = IF patients = <<>> THEN patients ELSE arg_after_sorted(patients)
    /\ req' = NoReq
    /\ lastOp' = "schedule"
    /\ UNCHANGED <<patients_list, scheduled, pc>>

Init ==
    /\ patients = <<>>
    /\ req = NoReq
    /\ resp = NoResp
    /\ lastOp = "start"
    /\ patients_list = <<>>
    /\ scheduled = <<>>
    /\ pc = "idle"

Next ==
    \/ add_patient
    \/ get_patients
    \/ clear_patients
    \/ auto_generate
    \/ schedule

Spec == Init /\ [][Next]_vars

(***************************************************************************)
(* greedy_schedule called as a function                                    *)
(***************************************************************************)
\* the times drawn start one below the sentinel
Times == (last_end_init - 1)..MaxTime

Labels == {<<"A">>, <<"B">>}

\* the tuples add_patient can store: a non-empty name and start < end
Intervals == {p \in Labels \X Times \X Times : p[2] < p[3]}

Lists == UNION {[1..n -> Intervals] : n \in 0..MaxLen}

InitFn ==
    /\ patients = <<>>
    /\ req = NoReq
    /\ resp = NoResp
    /\ lastOp = "start"
    /\ patients_list \in Lists
    /\ scheduled = <<>>
    /\ pc = "call"

\* scheduled = greedy_schedule(patients_list)
Call ==
    /\ pc = "call"
    /\ scheduled' = greedy_schedule(patients_list)
    /\ patients_list' = arg_after_sorted(patients_list)
    /\ pc' = "return"
    /\ UNCHANGED <<patients, req, resp, lastOp>>

\* the scheduler is run again, on its own prior output
Rerun ==
    /\ pc = "return"
    /\ patients_list' = scheduled
    /\ scheduled' = <<>>
    /\ pc' = "call"
    /\ UNCHANGED <<patients, req, resp, lastOp>>

NextFn ==
    \/ Call
    \/ Rerun

SpecFn == InitFn /\ [][NextFn]_vars

(***************************************************************************)
(* Properties                                                              *)
(***************************************************************************)
\* two intervals do not overlap: the one ending first ends by the other's start
Disjoint(a, b) == b[2] >= a[3] \/ a[2] >= b[3]

\* how often x occurs in the list l
Count(l, x) == Cardinality({i \in 1..Len(l) : l[i] = x})

\* the positions of l holding an interval with the start and end of x
Same(l, x) == {i \in 1..Len(l) : l[i][2] = x[2] /\ l[i][3] = x[3]}

Min(S) == CHOOSE m \in S : \A n \in S : m <= n

\* C1: no set of pairwise non-overlapping input intervals has more elements
\* than the list greedy_schedule returns.
C1_Optimal ==
    pc = "return" =>
        \A S \in SUBSET (1..Len(patients_list)) :
            (\A i, j \in S : i # j => Disjoint(patients_list[i], patients_list[j]))
                => Cardinality(S) <= Len(scheduled)

\* C2: the returned list holds only input elements, none more often than the
\* input does, and every later element starts at or after every earlier end.
C2_SubsetNonOverlapping ==
    pc = "return" =>
        /\ \A k \in 1..Len(scheduled) :
              /\ Count(scheduled, scheduled[k]) <= Count(patients_list, scheduled[k])
              /\ Count(patients_list, scheduled[k]) >= 1
        /\ \A i, j \in 1..Len(scheduled) :
              i < j => scheduled[j][2] >= scheduled[i][3]

C2_Witness ==
    /\ pc = "return"
    /\ Len(scheduled) >= 2
    /\ Len(scheduled) < Len(patients_list)

\* C3: an input of exactly one interval is returned as it is.
C3_SingleAccepted ==
    (pc = "return" /\ Len(patients_list) = 1) => scheduled = patients_list

\* C6: running greedy_schedule on the list it returned gives that list back.
C6_Idempotent ==
    pc = "return" => greedy_schedule(scheduled) = scheduled

C6_Witness ==
    /\ pc = "return"
    /\ patients_list = scheduled
    /\ Len(scheduled) >= 2

\* C7: of the input intervals sharing one start and end at most one is
\* returned, and it is the first of them in input order.
C7_FirstDuplicateWins ==
    pc = "return" =>
        \A i, j \in 1..Len(patients_list) :
            (i < j /\ j \in Same(patients_list, patients_list[i])) =>
                /\ Cardinality(Same(scheduled, patients_list[i])) <= 1
                /\ \A k \in Same(scheduled, patients_list[i]) :
                      scheduled[k] =
                          patients_list[Min(Same(patients_list, patients_list[i]))]

C7_Witness ==
    /\ pc = "return"
    /\ \E i, j \in 1..Len(patients_list) :
          /\ i < j
          /\ j \in Same(patients_list, patients_list[i])
          /\ patients_list[i][1] # patients_list[j][1]
          /\ Count(scheduled, patients_list[i]) = 1

\* C9: two intervals [s,m) and [m,e) given as the whole input are both
\* returned.
C9_TouchingBothAccepted ==
    (/\ pc = "return"
     /\ Len(patients_list) = 2
     /\ \/ patients_list[1][3] = patients_list[2][2]
        \/ patients_list[2][3] = patients_list[1][2])
        => /\ Len(scheduled) = 2
           /\ \A i \in 1..2 : Count(scheduled, patients_list[i]) >= 1

\* the request's name, start and end as add_patient reads them
ReqOk(r) ==
    /\ r.name.t = "str"
    /\ strip(r.name.s) # <<>>
    /\ ~int_raises(r.start)
    /\ ~int_raises(r.end)
    /\ int(r.start) < int(r.end)

\* C4: an add whose start is equal to or greater than its end is refused with
\* an error and leaves the collection as it was; an add changes the
\* collection only when the trimmed name is non-empty and start < end, and
\* then by appending that one interval.
C4_AddValidated ==
    [][lastOp' = "add" =>
        /\ (/\ ~int_raises(req'.start)
            /\ ~int_raises(req'.end)
            /\ int(req'.start) >= int(req'.end))
              => (patients' = patients /\ resp'.code >= 400)
        /\ ~ReqOk(req') => (patients' = patients /\ resp'.code >= 400)
        /\ ReqOk(req') =>
              /\ patients' =
                    Append(patients,
                           <<strip(req'.name.s), int(req'.start), int(req'.end)>>)
              /\ resp'.code = 201]_vars

C4_Witness ==
    /\ lastOp = "add"
    /\ patients # <<>>
    /\ req.name.t = "str"
    /\ strip(req.name.s) # <<>>
    /\ req.start.t = "int"
    /\ req.end.t = "float"
    /\ int(req.start) = int(req.end)
    /\ resp.code = 400

\* C5: run-scheduling answers with an error exactly when the collection is
\* empty, and otherwise with greedy_schedule of the collection as it is now.
C5_ScheduleCurrent ==
    lastOp = "schedule" =>
        /\ resp.code = 400 <=> patients = <<>>
        /\ resp.code = 400 => (resp.kind = "error" /\ resp.items = <<>>)
        /\ patients # <<>> =>
              /\ resp.code = 200
              /\ resp.items = patients_json(greedy_schedule(patients))
              /\ \A k \in 1..Len(resp.items) :
                    \E i \in 1..Len(patients) : resp.items[k] = patient_json(patients[i])

C5_Witness ==
    /\ lastOp = "schedule"
    /\ resp.code = 200
    /\ Len(resp.items) >= 2
    /\ Len(resp.items) < Len(patients)

\* C8: run-scheduling leaves the collection as it was, content and order.
C8_ScheduleNoSideEffect ==
    [][lastOp' = "schedule" => patients' = patients]_vars

C8_Witness ==
    /\ lastOp = "schedule"
    /\ resp.code = 200
    /\ patients # sorted(patients)

\* C10: every interval of the collection has a non-empty name and
\* start < end, and after auto-generate the collection is exactly 8
\* intervals with start in 1..8 and length in 1..4.
C10_CollectionValid ==
    /\ \A i \in 1..Len(patients) :
          /\ patients[i][1] # <<>>
          /\ patients[i][2] < patients[i][3]
    /\ lastOp = "auto" =>
          /\ Len(patients) = 8
          /\ \A i \in 1..Len(patients) :
                /\ patients[i][2] \in 1..8
                /\ patients[i][3] - patients[i][2] \in 1..4

C10_Witness ==
    /\ lastOp = "auto"
    /\ Len(patients) = 8
    /\ \E i, j \in 1..8 : patients[i][2] = 1 /\ patients[j][2] = 8
    /\ \E i, j \in 1..8 :
          /\ patients[i][3] - patients[i][2] = 1
          /\ patients[j][3] - patients[j][2] = 4

====
